---- MODULE Spec2Model ----
(***************************************************************************)
(* tinode/fcm: one Client shared by several goroutines.                    *)
(*                                                                         *)
(* fcm.go (current API):  SendHttp, GetRetryAfter, PostHttp.               *)
(* the older file of the same package: Send, GetRetryAfter, Post.          *)
(*                                                                         *)
(* Strings the code inspects character by character (the Retry-After       *)
(* header) are sequences of one-character strings; strings the code only   *)
(* passes on or concatenates (status line, body) are TLA+ strings.         *)
(***************************************************************************)
EXTENDS Integers, Sequences, FiniteSets, TLC

\* ------------------------------------------------------------------ bounds
\* Number of goroutines sharing the Client.
NumCallers == 2
\* Longest Retry-After text enumerated for GetRetryAfter on its own.
MaxLen == 3

Callers == 1..NumCallers

\* ------------------------------------------------------------ Go constants
StatusOK == 200
\* One limb of the 64-bit uint GetRetryAfter returns, kept as four 16-bit
\* limbs, most significant first (TLC's integers are 32 bits wide).
LimbBase == 65536

serverURL == "https://fcm.googleapis.com/fcm/send"

Digits == {"0", "1", "2", "3", "4", "5", "6", "7", "8", "9"}

DigitVal(c) ==
    CASE c = "0" -> 0 [] c = "1" -> 1 [] c = "2" -> 2 [] c = "3" -> 3
      [] c = "4" -> 4 [] c = "5" -> 5 [] c = "6" -> 6 [] c = "7" -> 7
      [] c = "8" -> 8 [] c = "9" -> 9

\* --------------------------------------------------------------- strconv
RECURSIVE DecimalValue(_)
DecimalValue(ds) ==
    IF ds = <<>> THEN 0
    ELSE DecimalValue(SubSeq(ds, 1, Len(ds) - 1)) * 10 + DigitVal(ds[Len(ds)])

\* strconv.Atoi: optional sign, then one or more decimal digits and nothing
\* else.  (The range error needs 19 digits and more, beyond every input here.)
Atoi(s) ==
    LET signed == s # <<>> /\ s[1] \in {"+", "-"}
        ds     == IF signed THEN Tail(s) ELSE s
    IN  IF ds = <<>> \/ \E k \in 1..Len(ds) : ds[k] \notin Digits
        THEN [ok |-> FALSE, n |-> 0]
        ELSE [ok |-> TRUE,
              n  |-> IF signed /\ s[1] = "-" THEN 0 - DecimalValue(ds)
                     ELSE DecimalValue(ds)]

\* uint(ra) for an int ra: the 64-bit two's complement bit pattern.
ToUint(n) ==
    IF n >= 0
    THEN <<0, 0, n \div LimbBase, n % LimbBase>>
    ELSE LET k == (0 - n) - 1
         IN  <<LimbBase - 1, LimbBase - 1,
               (LimbBase - 1) - (k \div LimbBase),
               (LimbBase - 1) - (k % LimbBase)>>

UintZero == <<0, 0, 0, 0>>

\* ------------------------------------------------------ net/http ParseTime
WeekDays ==
    { <<"M","o","n">>, <<"T","u","e">>, <<"W","e","d">>, <<"T","h","u">>,
      <<"F","r","i">>, <<"S","a","t">>, <<"S","u","n">> }

MonthNumber(m) ==
    CASE m = <<"J","a","n">> -> 1  [] m = <<"F","e","b">> -> 2
      [] m = <<"M","a","r">> -> 3  [] m = <<"A","p","r">> -> 4
      [] m = <<"M","a","y">> -> 5  [] m = <<"J","u","n">> -> 6
      [] m = <<"J","u","l">> -> 7  [] m = <<"A","u","g">> -> 8
      [] m = <<"S","e","p">> -> 9  [] m = <<"O","c","t">> -> 10
      [] m = <<"N","o","v">> -> 11 [] m = <<"D","e","c">> -> 12
      [] OTHER -> 0

IsLeap(y) == (y % 4 = 0 /\ y % 100 # 0) \/ y % 400 = 0

DaysIn(m, y) ==
    IF m = 2 THEN (IF IsLeap(y) THEN 29 ELSE 28)
    ELSE IF m \in {4, 6, 9, 11} THEN 30 ELSE 31

\* Days from 1970-01-01 to the civil date y-m-d.
DaysFromCivil(y, m, d) ==
    LET yy  == IF m <= 2 THEN y - 1 ELSE y
        era == yy \div 400
        yoe == yy - era * 400
        mp  == IF m > 2 THEN m - 3 ELSE m + 9
        doy == (153 * mp + 2) \div 5 + d - 1
        doe == yoe * 365 + yoe \div 4 - yoe \div 100 + doy
    IN  era * 146097 + doe - 719468

AllDigits(s) == \A k \in 1..Len(s) : s[k] \in Digits

\* http.ParseTime on the layout http.TimeFormat,
\* "Mon, 02 Jan 2006 15:04:05 GMT"; the result is the Unix time in seconds.
\* (ParseTime also tries RFC 850 and ANSI C dates; no text enumerated here is
\* in either layout, and every year enumerated is within 1970..2037.)
ParseTime(s) ==
    LET bad == [ok |-> FALSE, unix |-> 0]
    IN  IF Len(s) # 29 THEN bad
        ELSE
        LET wd == SubSeq(s, 1, 3)
            dd == SubSeq(s, 6, 7)
            mo == MonthNumber(SubSeq(s, 9, 11))
            yr == SubSeq(s, 13, 16)
            hh == SubSeq(s, 18, 19)
            mi == SubSeq(s, 21, 22)
            ss == SubSeq(s, 24, 25)
        IN  IF \/ wd \notin WeekDays
               \/ s[4] # "," \/ s[5] # " " \/ s[8] # " " \/ s[12] # " "
               \/ s[17] # " " \/ s[20] # ":" \/ s[23] # ":" \/ s[26] # " "
               \/ SubSeq(s, 27, 29) # <<"G","M","T">>
               \/ mo = 0
               \/ ~AllDigits(dd \o yr \o hh \o mi \o ss)
            THEN bad
            ELSE
            LET d == DecimalValue(dd)
                y == DecimalValue(yr)
                h == DecimalValue(hh)
                n == DecimalValue(mi)
                c == DecimalValue(ss)
            IN  IF d < 1 \/ d > DaysIn(mo, y) \/ h > 23 \/ n > 59 \/ c > 59
                THEN bad
                ELSE [ok   |-> TRUE,
                      unix |-> DaysFromCivil(y, mo, d) * 86400
                               + h * 3600 + n * 60 + c]

\* time.Now(): whole Unix seconds, and whether a fraction of a second follows.
NoTime == [sec |-> 0, frac |-> FALSE]

\* GetRetryAfter on the string s it read from c.retryAfter; now is what
\* time.Now() returns if it is called (it is called in the date branch only).
GetRetryAfterOf(s, now) ==
    IF s = <<>> THEN [val |-> UintZero, now |-> NoTime]
    ELSE IF Atoi(s).ok THEN [val |-> ToUint(Atoi(s).n), now |-> NoTime]
    ELSE IF ParseTime(s).ok
    THEN LET whole == ParseTime(s).unix - now.sec
             \* sec := ts.Sub(time.Now()).Seconds() is whole - fraction
             neg   == whole < 0 \/ (whole = 0 /\ now.frac)
         IN  [val |-> IF neg THEN UintZero
                      ELSE ToUint(IF now.frac THEN whole - 1 ELSE whole),
              now |-> now]
    ELSE [val |-> UintZero, now |-> NoTime]

\* ---------------------------------------------------------------- inputs
\* Messages handed to Send: Data is an interface{}; encoding/json cannot
\* encode a channel.
Messages == { [To |-> "token", Data |-> "map"], [To |-> "token", Data |-> "chan"] }

\* Retry-After header values the gateway sends; <<>> is Header.Get's answer
\* when the header is absent.
Headers == { <<>>, <<"1","2","0">> }

JsonBody ==
    "{\"multicast_id\":1,\"success\":1,\"failure\":0,\"canonical_ids\":0,\"results\":[{\"message_id\":\"m1\"}]}"
TextBody == "Unavailable"
Bodies == { JsonBody, TextBody }

StatusLine(c) ==
    CASE c = 200 -> "200 OK"
      [] c = 400 -> "400 Bad Request"
      [] c = 503 -> "503 Service Unavailable"

StatusCodes == { 200, 503 }

\* What RoundTrip hands back: *http.Response with its body still unread.
\* ReadErr: the connection breaks while the body is read.
NoResp ==
    [StatusCode |-> 0, Status |-> "", Body |-> "", RetryAfter |-> <<>>, ReadErr |-> FALSE]

Response(c, b, h) ==
    [StatusCode |-> c, Status |-> StatusLine(c), Body |-> b, RetryAfter |-> h,
     ReadErr |-> FALSE]

Responses ==
    { Response(c, b, h) : c \in StatusCodes, b \in Bodies, h \in Headers }
    \cup { [Response(200, JsonBody, <<"1","2","0">>) EXCEPT !.ReadErr = TRUE] }

\* Instants time.Now() may return, around Wed, 21 Oct 2015 07:28:00 GMT
\* (Unix 1445412480).
Clock ==
    { [sec |-> 1445412450, frac |-> FALSE], [sec |-> 1445412450, frac |-> TRUE],
      [sec |-> 1445412480, frac |-> TRUE],  [sec |-> 1445412490, frac |-> FALSE] }

\* Bytes found past the end of a string's backing array.
JunkChars == { "0", "x" }

\* ------------------------------------------------------- values returned
NilErr == [nil |-> TRUE, kind |-> "", text |-> ""]
Error(k, t) == [nil |-> FALSE, kind |-> k, text |-> t]

\* *HttpResponse: nil, or a pointer to the decoded struct.
ZeroResponse ==
    [nil |-> FALSE, MulticastId |-> 0, Success |-> 0, Fail |-> 0,
     CanonicalIds |-> 0, Results |-> <<>>]
NilResponse == [ZeroResponse EXCEPT !.nil = TRUE]

NoRet == [resp |-> NilResponse, err |-> NilErr]

\* json.NewEncoder(&rw).Encode(msg)
JsonEncode(msg) ==
    IF msg.Data = "chan"
    THEN Error("json.UnsupportedTypeError", "json: unsupported type: chan int")
    ELSE NilErr

\* http.NewRequest(http.MethodPost, url, &rw): the method is valid and the
\* URL a well-formed constant, so the error is never set.
NewRequest(url) ==
    IF url = serverURL THEN NilErr
    ELSE Error("url.Error", "parse " \o url)

\* json.Unmarshal(body, &response) with response the zero HttpResponse.
JsonUnmarshal(body) ==
    IF body = JsonBody
    THEN [v   |-> [ZeroResponse EXCEPT !.MulticastId = 1, !.Success = 1,
                      !.Results = << [MessageId |-> "m1", RegistrationId |-> "",
                                      Error |-> ""] >>],
          err |-> NilErr]
    ELSE [v   |-> ZeroResponse,
          err |-> Error("json.SyntaxError",
                        "invalid character 'U' looking for beginning of value")]

\* ----------------------------------------------------------------- state
VARIABLES
    retryAfter,    \* Client.retryAfter: a string header, [data, len]
    op,            \* per goroutine: the operation it called last
    pc,            \* per goroutine: where it is inside that operation
    httpResp,      \* per goroutine: httpResp of the running Send
    bodyOpen,      \* per goroutine: httpResp.Body is open (holds a connection)
    posts,         \* per goroutine: RoundTrip calls made by the running Send
    unmarshalled,  \* per goroutine: json.Unmarshal was called by the Send
    pending,       \* per goroutine: words of c.retryAfter still to be stored
    ret            \* per goroutine: what the operation returns

vars == <<retryAfter, op, pc, httpResp, bodyOpen, posts, unmarshalled, pending, ret>>

\* The Go string value v as it lies in memory.
StringHeader(v) == [data |-> v, len |-> Len(v)]

Init ==
    /\ retryAfter = StringHeader(<<>>)
    /\ op = [i \in Callers |-> "none"]
    /\ pc = [i \in Callers |-> "idle"]
    /\ httpResp = [i \in Callers |-> NoResp]
    /\ bodyOpen = [i \in Callers |-> FALSE]
    /\ posts = [i \in Callers |-> 0]
    /\ unmarshalled = [i \in Callers |-> FALSE]
    /\ pending = [i \in Callers |-> {}]
    /\ ret = [i \in Callers |-> NoRet]

\* ------------------------------------------------------- helpers of Send
\* The operation returns r to goroutine i.
Return(i, r) ==
    /\ ret' = [ret EXCEPT ![i] = r]
    /\ pc' = [pc EXCEPT ![i] = "idle"]

\* A Send that calls RoundTrip again when it fails.
PcOnRoundTripErr_Retry == "roundtrip"

\* Where a Send goes when RoundTrip fails: it returns (nil, err).
PcOnRoundTripErr == "idle"

\* Body.Close() placed after the read error's return.
BodyOpenAfterRead_CloseAfterCheck(readErr) == readErr

\* Whether httpResp.Body is still open after ReadAll and Body.Close():
\* Close is called before the read error is looked at.
BodyOpenAfterRead(readErr) == FALSE

\* An error text that also quotes the Client's stored retry-after length.
GatewayError_Shared(r) ==
    Error("errors.errorString",
          r.Status \o ": " \o r.Body \o (IF retryAfter.len = 0 THEN "" ELSE " (retry)"))

\* errors.New(httpResp.Status + ": " + string(body))
GatewayError(r) == Error("errors.errorString", r.Status \o ": " \o r.Body)

\* The header stored whatever json.Unmarshal returned.
StoreGuard_Always(err) == TRUE

\* "if err == nil": the Retry-After header is stored only then.
StoreGuard(err) == err.nil

\* The locals of the goroutine's previous call are gone when it calls again.
DropLocals(i) ==
    /\ httpResp' = [httpResp EXCEPT ![i] = NoResp]
    /\ posts' = [posts EXCEPT ![i] = 0]
    /\ unmarshalled' = [unmarshalled EXCEPT ![i] = FALSE]

\* Encode the message and format the request.
EncodeStep(i, o) ==
    /\ pc[i] = "idle"
    /\ op' = [op EXCEPT ![i] = o]
    /\ DropLocals(i)
    /\ \E msg \in Messages :
          IF ~JsonEncode(msg).nil
          THEN Return(i, [resp |-> NilResponse, err |-> JsonEncode(msg)])
          ELSE IF ~NewRequest(serverURL).nil
          THEN Return(i, [resp |-> NilResponse, err |-> NewRequest(serverURL)])
          ELSE /\ pc' = [pc EXCEPT ![i] = "roundtrip"]
               /\ ret' = [ret EXCEPT ![i] = NoRet]
    /\ UNCHANGED <<retryAfter, bodyOpen, pending>>

\* c.connection.RoundTrip(req): the POST is issued; the transport fails or
\* the gateway answers.
RoundTripStep(i, o) ==
    /\ pc[i] = "roundtrip"
    /\ op[i] = o
    /\ posts' = [posts EXCEPT ![i] = @ + 1]
    /\ \/ /\ ret' = [ret EXCEPT ![i] =
                       [resp |-> NilResponse,
                        err  |-> Error("net.OpError", "dial tcp: i/o timeout")]]
          /\ pc' = [pc EXCEPT ![i] = PcOnRoundTripErr]
          /\ UNCHANGED <<httpResp, bodyOpen>>
       \/ \E r \in Responses :
             /\ httpResp' = [httpResp EXCEPT ![i] = r]
             /\ bodyOpen' = [bodyOpen EXCEPT ![i] = TRUE]
             /\ pc' = [pc EXCEPT ![i] = "read"]
             /\ UNCHANGED ret
    /\ UNCHANGED <<retryAfter, op, unmarshalled, pending>>

\* Decode the body; on success go on to store the header, else return
\* (&response, err).
DecodeStep(i) ==
    LET d == JsonUnmarshal(httpResp[i].Body)
    IN  /\ unmarshalled' = [unmarshalled EXCEPT ![i] = TRUE]
        /\ ret' = [ret EXCEPT ![i] = [resp |-> d.v, err |-> d.err]]
        /\ IF StoreGuard(d.err)
           THEN /\ pc' = [pc EXCEPT ![i] = "store"]
                /\ pending' = [pending EXCEPT ![i] = {"data", "len"}]
           ELSE /\ pc' = [pc EXCEPT ![i] = "idle"]
                /\ UNCHANGED pending

\* c.retryAfter = httpResp.Header.Get("Retry-After"), then return.  The
\* field is a two-word string header written without synchronisation: the
\* two words are stored one at a time, in either order.
StoreStep(i, o) ==
    /\ pc[i] = "store"
    /\ op[i] = o
    /\ \E w \in pending[i] :
          /\ retryAfter' =
                IF w = "data"
                THEN [retryAfter EXCEPT !.data = httpResp[i].RetryAfter]
                ELSE [retryAfter EXCEPT !.len = Len(httpResp[i].RetryAfter)]
          /\ pending' = [pending EXCEPT ![i] = @ \ {w}]
          /\ pc' = [pc EXCEPT ![i] = IF pending[i] = {w} THEN "idle" ELSE "store"]
    /\ UNCHANGED <<op, httpResp, bodyOpen, posts, unmarshalled, ret>>

\* ------------------------------------------------------ fcm.go: SendHttp
SendHttp_Encode(i) == EncodeStep(i, "SendHttp")

SendHttp_RoundTrip(i) == RoundTripStep(i, "SendHttp")

\* ioutil.ReadAll, Body.Close, the status check and json.Unmarshal.
SendHttp_Read(i) ==
    /\ pc[i] = "read"
    /\ op[i] = "SendHttp"
    /\ bodyOpen' = [bodyOpen EXCEPT ![i] = BodyOpenAfterRead(httpResp[i].ReadErr)]
    /\ IF httpResp[i].ReadErr
       THEN /\ Return(i, [resp |-> NilResponse,
                          err  |-> Error("errors.errorString", "unexpected EOF")])
            /\ UNCHANGED <<unmarshalled, pending>>
       ELSE IF httpResp[i].StatusCode # StatusOK
       THEN /\ Return(i, [resp |-> NilResponse, err |-> GatewayError(httpResp[i])])
            /\ UNCHANGED <<unmarshalled, pending>>
       ELSE DecodeStep(i)
    /\ UNCHANGED <<retryAfter, op, httpResp, posts>>

SendHttp_Store(i) == StoreStep(i, "SendHttp")

\* The strings a read of c.retryAfter may yield: the first len bytes at data;
\* when a torn header has len beyond the backing array, whatever lies there.
ReadString(h) ==
    IF h.len <= Len(h.data)
    THEN { SubSeq(h.data, 1, h.len) }
    ELSE { h.data \o pad : pad \in [1..(h.len - Len(h.data)) -> JunkChars] }

\* time.Now() is called only when the string is a date and not an integer.
CallsNow(s) == s # <<>> /\ ~Atoi(s).ok /\ ParseTime(s).ok

\* What GetRetryAfter hands back: the uint, with the string it read and the
\* instant it took; fault when the read ran into unmapped memory.
GetResult(s, now, fault) ==
    [s     |-> s,
     val   |-> IF fault THEN UintZero ELSE GetRetryAfterOf(s, now).val,
     now   |-> IF fault THEN NoTime ELSE GetRetryAfterOf(s, now).now,
     fault |-> fault]

GetRetryAfterStep(i, o) ==
    /\ pc[i] = "idle"
    /\ op' = [op EXCEPT ![i] = o]
    /\ DropLocals(i)
    /\ \E s \in ReadString(retryAfter),
          fault \in {FALSE, retryAfter.len > Len(retryAfter.data)} :
          \E now \in IF ~fault /\ CallsNow(s) THEN Clock ELSE {NoTime} :
             ret' = [ret EXCEPT ![i] = GetResult(s, now, fault)]
    /\ UNCHANGED <<retryAfter, pc, bodyOpen, pending>>

GetRetryAfter(i) == GetRetryAfterStep(i, "GetRetryAfter")

\* PostHttp: "Not implemented yet".
PostHttp(i) ==
    /\ pc[i] = "idle"
    /\ op' = [op EXCEPT ![i] = "PostHttp"]
    /\ DropLocals(i)
    /\ ret' = [ret EXCEPT ![i] =
                 [ch |-> "nil", err |-> Error("errors.errorString", "Not implmented")]]
    /\ UNCHANGED <<retryAfter, pc, bodyOpen, pending>>

Next ==
    \E i \in Callers :
        \/ SendHttp_Encode(i)
        \/ SendHttp_RoundTrip(i)
        \/ SendHttp_Read(i)
        \/ SendHttp_Store(i)
        \/ GetRetryAfter(i)
        \/ PostHttp(i)

Spec == Init /\ [][Next]_vars

\* ------------------------------------- the older file: Send, Post
Send_Encode(i) == EncodeStep(i, "Send")

Send_RoundTrip(i) == RoundTripStep(i, "Send")

\* ioutil.ReadAll, Body.Close and json.Unmarshal: the status is not looked at.
Send_Read(i) ==
    /\ pc[i] = "read"
    /\ op[i] = "Send"
    /\ bodyOpen' = [bodyOpen EXCEPT ![i] = FALSE]
    /\ IF httpResp[i].ReadErr
       THEN /\ Return(i, [resp |-> NilResponse,
                          err  |-> Error("errors.errorString", "unexpected EOF")])
            /\ UNCHANGED <<unmarshalled, pending>>
       ELSE DecodeStep(i)
    /\ UNCHANGED <<retryAfter, op, httpResp, posts>>

Send_Store(i) == StoreStep(i, "Send")

Send_GetRetryAfter(i) == GetRetryAfterStep(i, "GetRetryAfter")

\* Post returns a nil channel.
Post(i) ==
    /\ pc[i] = "idle"
    /\ op' = [op EXCEPT ![i] = "Post"]
    /\ DropLocals(i)
    /\ ret' = [ret EXCEPT ![i] = [ch |-> "nil", err |-> NilErr]]
    /\ UNCHANGED <<retryAfter, pc, bodyOpen, pending>>

NextLegacy ==
    \E i \in Callers :
        \/ Send_Encode(i)
        \/ Send_RoundTrip(i)
        \/ Send_Read(i)
        \/ Send_Store(i)
        \/ Send_GetRetryAfter(i)
        \/ Post(i)

SpecLegacy == Init /\ [][NextLegacy]_vars

\* ------------------------------------------- GetRetryAfter on its own
\* Characters of the Retry-After texts enumerated, and two dates.
RetryChars == { "-", "+", "0", "5", "x" }

HttpDate ==
    <<"W","e","d",","," ","2","1"," ","O","c","t"," ","2","0","1","5"," ",
      "0","7",":","2","8",":","0","0"," ","G","M","T">>
NotHttpDate ==
    <<"W","e","d",","," ","2","1"," ","O","c","t"," ","2","0","1","5"," ",
      "0","7",":","2","8",":","0","0"," ","U","T","C">>

RetryTexts ==
    UNION { [1..n -> RetryChars] : n \in 0..MaxLen } \cup { HttpDate, NotHttpDate }

\* Goroutine 1 has returned from a SendHttp that the gateway answered with
\* 200, a decodable body and the header Retry-After: s.
InitRetry ==
    \E s \in RetryTexts :
        /\ retryAfter = StringHeader(s)
        /\ op = [i \in Callers |-> IF i = 1 THEN "SendHttp" ELSE "none"]
        /\ pc = [i \in Callers |-> "idle"]
        /\ httpResp = [i \in Callers |->
                         IF i = 1 THEN Response(StatusOK, JsonBody, s) ELSE NoResp]
        /\ bodyOpen = [i \in Callers |-> FALSE]
        /\ posts = [i \in Callers |-> IF i = 1 THEN 1 ELSE 0]
        /\ unmarshalled = [i \in Callers |-> i = 1]
        /\ pending = [i \in Callers |-> {}]
        /\ ret = [i \in Callers |->
                    IF i = 1 THEN [resp |-> JsonUnmarshal(JsonBody).v, err |-> NilErr]
                    ELSE NoRet]

NextRetry == \E i \in Callers : GetRetryAfter(i)

SpecRetry == InitRetry /\ [][NextRetry]_vars

\* ================================================================ claims
IsSend(i) == op[i] \in {"SendHttp", "Send"}
Returned(i) == pc[i] = "idle"
\* The Send of goroutine i received an answer whose status is not 200.
GotNon200(i) ==
    /\ IsSend(i)
    /\ httpResp[i] # NoResp
    /\ ~httpResp[i].ReadErr
    /\ httpResp[i].StatusCode # StatusOK
\* The Send of goroutine i received 200 and a body that decodes.
GotDecodable200(i) ==
    /\ IsSend(i)
    /\ httpResp[i] # NoResp
    /\ ~httpResp[i].ReadErr
    /\ httpResp[i].StatusCode = StatusOK
    /\ JsonUnmarshal(httpResp[i].Body).err.nil

\* C1: every answer whose status is not 200, whatever its body, makes the
\* blocking send (SendHttp and Send alike) fail with an error carrying the
\* status line and the raw body, return no response, and never decode the body.
C1_Non200Fails ==
    \A i \in Callers :
        GotNon200(i) =>
            /\ ~unmarshalled[i]
            /\ Returned(i) =>
                  /\ ret[i].resp.nil
                  /\ ~ret[i].err.nil
                  /\ ret[i].err.text = httpResp[i].Status \o ": " \o httpResp[i].Body

\* C2: after a SendHttp that failed because the gateway answered with a
\* status other than 200 and Retry-After: n (n >= 0), the next GetRetryAfter
\* returns n.  (Stated for a goroutine that is alone on the Client.)
C2_RetryAfterOfFailedSend ==
    [][ \A i \in Callers :
          ( /\ Returned(i) /\ op[i] = "SendHttp" /\ GotNon200(i)
            /\ ~ret[i].err.nil
            /\ Atoi(httpResp[i].RetryAfter).ok
            /\ Atoi(httpResp[i].RetryAfter).n >= 0
            /\ \A j \in Callers \ {i} : op[j] = "none"
            /\ GetRetryAfter(i) )
          => ( /\ ~ret'[i].fault
               /\ ret'[i].val = ToUint(Atoi(httpResp[i].RetryAfter).n) ) ]_vars

C4_LastCompletedWriteWins ==
    [][ \A i \in Callers :
          ( /\ SendHttp_Store(i)
            /\ pc'[i] = "idle"
            /\ \A j \in Callers \ {i} : pc'[j] = "idle" )
          => ReadString(retryAfter') = { httpResp[i].RetryAfter } ]_vars

\* C5: concurrent Sends are independent: a Send in progress can always take
\* its next step whatever the others do, and what a Send returns is fixed by
\* the answer to its own request (two Sends with the same answer return the
\* same).
C5_SendsIndependent ==
    /\ \A i \in Callers :
          (op[i] = "SendHttp" /\ ~Returned(i)) =>
              ENABLED (SendHttp_RoundTrip(i) \/ SendHttp_Read(i) \/ SendHttp_Store(i))
    /\ \A i, j \in Callers :
          ( /\ op[i] = "SendHttp" /\ op[j] = "SendHttp"
            /\ Returned(i) /\ Returned(j)
            /\ httpResp[i] = httpResp[j] /\ posts[i] = posts[j] )
          => ret[i] = ret[j]

C5_Witness ==
    \E i, j \in Callers :
        /\ i # j
        /\ op[i] = "SendHttp" /\ op[j] = "SendHttp"
        /\ Returned(i) /\ Returned(j)
        /\ GotNon200(i)
        /\ httpResp[i] = httpResp[j]
        /\ ret[i] = ret[j]
        /\ retryAfter # StringHeader(<<>>)

\* C6: a Send that received a response has closed its body when it returns,
\* on every exit path; no returned call holds a connection.
C6_BodyClosedOnReturn ==
    \A i \in Callers : Returned(i) => ~bodyOpen[i]

C6_Witness ==
    \E i \in Callers :
        /\ Returned(i) /\ op[i] = "SendHttp"
        /\ httpResp[i].ReadErr
        /\ ~ret[i].err.nil
        /\ ~bodyOpen[i]

\* C8: no retries: a Send issues at most one POST, exactly one when encoding
\* and request construction succeed and none otherwise, and every failure is
\* the error that same call returns.
C8_AtMostOnePost ==
    \A i \in Callers :
        op[i] = "SendHttp" =>
            /\ posts[i] <= 1
            /\ Returned(i) =>
                  /\ posts[i] = IF ret[i].err.kind \in {"json.UnsupportedTypeError", "url.Error"}
                                THEN 0 ELSE 1
                  /\ (httpResp[i] = NoResp \/ ~GotDecodable200(i)) => ~ret[i].err.nil

C8_Witness ==
    \E i \in Callers :
        /\ Returned(i) /\ op[i] = "SendHttp"
        /\ GotNon200(i)
        /\ posts[i] = 1
        /\ ~ret[i].err.nil
        /\ retryAfter = StringHeader(<<"1","2","0">>)

\* C9: Send returns a response or an error, never both: the response is nil
\* exactly when the error is set.
C9_ResponseXorError ==
    \A i \in Callers :
        (Returned(i) /\ op[i] = "SendHttp") => (ret[i].resp.nil <=> ~ret[i].err.nil)

\* The unsigned value v is the number n.
UintIs(v, n) == n >= 0 /\ v = <<0, 0, n \div LimbBase, n % LimbBase>>

\* C7: GetRetryAfter never fails and returns 0 for the empty string, n for a
\* plain integer n, for an HTTP date the whole seconds until it (0 when it is
\* past), and 0 otherwise, the integer reading tried first.
C7_GetRetryAfterValue ==
    \A i \in Callers :
        op[i] = "GetRetryAfter" =>
            LET s == ret[i].s
                v == ret[i].val
            IN  /\ ~ret[i].fault
                /\ IF s = <<>> THEN v = UintZero
                   ELSE IF Atoi(s).ok THEN UintIs(v, Atoi(s).n)
                   ELSE IF ParseTime(s).ok
                   THEN LET left == (ParseTime(s).unix - ret[i].now.sec)
                                    - (IF ret[i].now.frac THEN 1 ELSE 0)
                        IN  UintIs(v, IF left < 0 THEN 0 ELSE left)
                   ELSE v = UintZero

\* C10: no wrapped-around value: a stored string that parses as a negative
\* integer gives 0.
C10_NegativeGivesZero ==
    \A i \in Callers :
        (op[i] = "GetRetryAfter" /\ Atoi(ret[i].s).ok /\ Atoi(ret[i].s).n < 0)
            => ret[i].val = UintZero
====
